---- MODULE Spec2Model ----
(***************************************************************************)
(* Model of the ratelimit package of gaoyong06/go-pkg: RedisLimiter.Allow  *)
(* and the Lua script it runs against Redis (sliding windows kept as       *)
(* sorted sets, one per key and window).                                   *)
(*                                                                         *)
(* Callers are processes 1..NumProcs, each making one call to Allow.  A    *)
(* call reads the clock (getNowUnix), then runs the script in the store    *)
(* and returns what it makes of the reply.  The store runs one script at a *)
(* time; a script takes one step per window it purges and counts, in the   *)
(* order of the windows table.  Time passes between the steps of callers;  *)
(* the store drops a sorted set when its expiry has passed.                *)
(*                                                                         *)
(* Spec is the limiter on a store that answers every script call with the  *)
(* script's table.  SpecFaults adds the calls that fail: the store is      *)
(* down, the reply is lost, or a value of another shape arrives.           *)
(***************************************************************************)
EXTENDS Integers, Sequences, FiniteSets, TLC

\* ------------------------------------------------------------------ bounds
NumProcs == 3       \* callers, one Allow call each
MaxTicks == 2       \* how many times the clock advances
MaxFaults == 1      \* how many calls of a run meet a fault

\* ------------------------------------------------------- program constants
MICROS == 1000000       \* marker = now_unix * 1000000 + math.random(0, 999999)
StartTime == 1700000000 \* the clock's first value, a time.Now().Unix()
SigDigits == 14         \* Lua's tostring prints a number with "%.14g"

Procs == 1..NumProcs
\* math.random(0, 999999): a few of its values
Randoms == {40, 100}
Deltas == {1, 60}   \* clock steps: a second, a minute
NoExpiry == 0      \* a sorted set with no expiry set (or no sorted set)

\* The keys callers use; the second one ends in a window name.
Keys == {"a", "a:per_second"}
\* the keys caller p may use: the last caller is the one that may use the
\* second key
KeysOf(p) == IF p = NumProcs THEN Keys ELSE {"a"}

\* windows table of the script: {suffix, limit, window}; the limit comes
\* from the config (ARGV[2..5]), in the same order.
windows ==
    << [suffix |-> "per_second", window |-> 1],
       [suffix |-> "per_minute", window |-> 60],
       [suffix |-> "per_hour",   window |-> 3600],
       [suffix |-> "per_day",    window |-> 86400] >>

NumWindows == Len(windows)
WIdx == 1..NumWindows

\* *Config: nil, or <<PerSecond, PerMinute, PerHour, PerDay>>.
NilConfig == << >>
Configs ==
    { NilConfig,
      <<0, 0, 0, 0>>,
      <<1, 0, 0, 0>>,
      <<2, 0, 0, 0>>,
      <<0, 1, 0, 0>>,
      <<1, 0, 0, 1>>,
      <<2, 0, 0, 1>>,
      <<-1, 0, 0, 1>> }     \* the fields are int32: a limit may be negative

\* the configs callers of the second key use
OtherConfigs == { <<1, 0, 0, 0>> }

\* (mutant) the key left out of the sorted set's name
zset_key_shared(key, key_suffix) == "rate_limit:" \o key_suffix

\* local zset_key = "rate_limit:" .. KEYS[1] .. ":" .. key_suffix
zset_key(key, key_suffix) == "rate_limit:" \o key \o ":" \o key_suffix

ZsetKeys == { zset_key(k, windows[i].suffix) : k \in Keys, i \in WIdx }

\* A number of microseconds sec * 1000000 + us is kept as <<sec, us>>, with
\* 0 <= us < 1000000 (the products do not fit the checker's integers).
Micros(sec, us) == << sec, us >>

\* a <= b on such numbers
Leq(a, b) == a[1] < b[1] \/ (a[1] = b[1] /\ a[2] <= b[2])

RECURSIVE Pow10(_)
Pow10(n) == IF n = 0 THEN 1 ELSE 10 * Pow10(n - 1)

RECURSIVE NumDigits(_)
NumDigits(n) == IF n < 10 THEN 1 ELSE 1 + NumDigits(n \div 10)

\* Lua's tostring(number), "%.14g": the number rounded to SigDigits
\* significant digits, ties to even.  Redis reads the text back as the
\* score and keeps the text as the member, so the rounded number is both.
tostring(v) ==
    LET sec == v[1]
        us  == v[2]
        d   == NumDigits(sec) + 6
    IN  IF sec <= 0 \/ d <= SigDigits THEN v
        ELSE LET unit == Pow10(d - SigDigits)
                 q    == us \div unit
                 rem  == us % unit
                 up   == 2 * rem > unit \/ (2 * rem = unit /\ q % 2 = 1)
                 us2  == (IF up THEN q + 1 ELSE q) * unit
             IN  IF us2 >= MICROS THEN Micros(sec + 1, 0) ELSE Micros(sec, us2)

\* ZREMRANGEBYSCORE zset 0 max: drops the members with 0 <= score <= max.
ZREMRANGEBYSCORE(members, max) ==
    { m \in members : ~(Leq(Micros(0, 0), m) /\ Leq(m, max)) }

\* (mutant) if limit == 0 then return {true, 0} end
IsUnlimitedZeroOnly(limit) == limit = 0

\* (mutant) 0 taken for a limit of no calls
IsUnlimitedNegative(limit) == limit < 0

\* if limit <= 0 then return {true, 0} end
IsUnlimited(limit) == limit <= 0

\* (mutant) the windows taken from the last one to the first
NextWindowReversed(config, from) ==
    LET S == { j \in WIdx : /\ ~IsUnlimited(config[j])
                            /\ from > 1 => j < from - 1 }
    IN  IF S = {} THEN NumWindows + 1
        ELSE CHOOSE j \in S : \A h \in S : j >= h

\* The first window from `from` on that check_window does not return from
\* at once (NumWindows + 1 when there is none).
NextWindow(config, from) ==
    LET S == { j \in WIdx : j >= from /\ ~IsUnlimited(config[j]) }
    IN  IF S = {} THEN NumWindows + 1
        ELSE CHOOSE j \in S : \A h \in S : j <= h

\* (mutants of check_window) the limit compared with count + slack, and
\* the window taken `extra` seconds longer
check_window_variant(zs, ex, KEYS1, key_suffix, limit, window_seconds, now_unix,
                     rnd, at, slack, extra) ==
    IF IsUnlimited(limit)
    THEN [ok |-> TRUE, count |-> 0, zs |-> zs, ex |-> ex, added |-> FALSE]
    ELSE
      LET window_start == now_unix - window_seconds - extra
          zk     == zset_key(KEYS1, key_suffix)
          kept   == ZREMRANGEBYSCORE(zs[zk], tostring(Micros(window_start, 0)))
          ex1    == IF kept = {} THEN [ex EXCEPT ![zk] = NoExpiry] ELSE ex
          count  == Cardinality(kept)
          member == tostring(Micros(now_unix, rnd))
      IN  IF count + slack >= limit
          THEN [ok |-> FALSE, count |-> count,
                zs |-> [zs EXCEPT ![zk] = kept], ex |-> ex1, added |-> FALSE]
          ELSE [ok |-> TRUE, count |-> count + 1,
                zs |-> [zs EXCEPT ![zk] = kept \cup {member}],
                ex |-> [ex1 EXCEPT ![zk] = at + window_seconds + 1],
                added |-> TRUE]

\* (mutant) if count > limit
check_window_gt(zs, ex, KEYS1, key_suffix, limit, window_seconds, now_unix, rnd, at) ==
    check_window_variant(zs, ex, KEYS1, key_suffix, limit, window_seconds,
                         now_unix, rnd, at, -1, 0)

\* (mutant) if count + 1 >= limit
check_window_early(zs, ex, KEYS1, key_suffix, limit, window_seconds, now_unix, rnd, at) ==
    check_window_variant(zs, ex, KEYS1, key_suffix, limit, window_seconds,
                         now_unix, rnd, at, 1, 0)

\* (mutant) window_start = now_unix - window_seconds - 1
check_window_wide(zs, ex, KEYS1, key_suffix, limit, window_seconds, now_unix, rnd, at) ==
    check_window_variant(zs, ex, KEYS1, key_suffix, limit, window_seconds,
                         now_unix, rnd, at, 0, 1)

\* (mutant) EXPIRE zset_key window_seconds + 2
check_window_ttl(zs, ex, KEYS1, key_suffix, limit, window_seconds, now_unix, rnd, at) ==
    LET r  == check_window_variant(zs, ex, KEYS1, key_suffix, limit,
                                   window_seconds, now_unix, rnd, at, 0, 0)
        zk == zset_key(KEYS1, key_suffix)
    IN  IF r.added
        THEN [r EXCEPT !.ex = [r.ex EXCEPT ![zk] = at + window_seconds + 2]]
        ELSE r

\* (mutant) EXPIRE only when the sorted set has no expiry yet
check_window_norefresh(zs, ex, KEYS1, key_suffix, limit, window_seconds, now_unix, rnd, at) ==
    LET r  == check_window_variant(zs, ex, KEYS1, key_suffix, limit,
                                   window_seconds, now_unix, rnd, at, 0, 0)
        zk == zset_key(KEYS1, key_suffix)
        kept == ZREMRANGEBYSCORE(zs[zk],
                                 tostring(Micros(now_unix - window_seconds, 0)))
    IN  IF r.added /\ kept # {}
        THEN [r EXCEPT !.ex = [r.ex EXCEPT ![zk] = ex[zk]]]
        ELSE r

\* (mutant) the marker recorded before the count is compared with the limit
check_window_record(zs, ex, KEYS1, key_suffix, limit, window_seconds, now_unix, rnd, at) ==
    LET r  == check_window_variant(zs, ex, KEYS1, key_suffix, limit,
                                   window_seconds, now_unix, rnd, at, 0, 0)
        zk == zset_key(KEYS1, key_suffix)
    IN  IF ~r.ok
        THEN [r EXCEPT !.zs = [r.zs EXCEPT ![zk] = @ \cup {tostring(Micros(now_unix, rnd))}],
                       !.ex = [r.ex EXCEPT ![zk] = at + window_seconds + 1],
                       !.added = TRUE]
        ELSE r

\* (mutant) EXPIRE zset_key window_seconds
check_window_short(zs, ex, KEYS1, key_suffix, limit, window_seconds, now_unix, rnd, at) ==
    LET r  == check_window_variant(zs, ex, KEYS1, key_suffix, limit,
                                   window_seconds, now_unix, rnd, at, 0, 0)
        zk == zset_key(KEYS1, key_suffix)
    IN  IF r.added
        THEN [r EXCEPT !.ex = [r.ex EXCEPT ![zk] = at + window_seconds]]
        ELSE r

\* check_window of the script on the store (zs: members of every sorted set,
\* ex: the time each set expires at, NoExpiry for none).  rnd is what
\* math.random returns and at is the store's time, which EXPIRE counts from.
\* Result: ok / count as the script returns them, and the store afterwards.
check_window(zs, ex, KEYS1, key_suffix, limit, window_seconds, now_unix, rnd, at) ==
    IF IsUnlimited(limit)
    THEN [ok |-> TRUE, count |-> 0, zs |-> zs, ex |-> ex, added |-> FALSE]
    ELSE
      LET window_start == now_unix - window_seconds
          zk     == zset_key(KEYS1, key_suffix)
          kept   == ZREMRANGEBYSCORE(zs[zk], tostring(Micros(window_start, 0)))
          \* a sorted set left empty is deleted, and its expiry with it
          ex1    == IF kept = {} THEN [ex EXCEPT ![zk] = NoExpiry] ELSE ex
          count  == Cardinality(kept)
          member == tostring(Micros(now_unix, rnd))
      IN  IF count >= limit
          THEN [ok |-> FALSE, count |-> count,
                zs |-> [zs EXCEPT ![zk] = kept], ex |-> ex1, added |-> FALSE]
          ELSE [ok |-> TRUE, count |-> count + 1,
                zs |-> [zs EXCEPT ![zk] = kept \cup {member}],
                ex |-> [ex1 EXCEPT ![zk] = at + window_seconds + 1],
                added |-> TRUE]

\* ------------------------------------------------------------------- state
VARIABLES
    clock,      \* the wall clock, in seconds (time.Now().Unix())
    cfgOf,      \* the config callers pass for each key
    zsets,      \* store: members of each sorted set (score = member)
    expire,     \* store: when each sorted set expires, or NoExpiry
    running,    \* the callers whose script the store is executing
    pc,         \* where each caller is: idle, run (the script call), done
    key,        \* the key of each caller's call
    now,        \* what getNowUnix returned to each caller
    idx,        \* the window the caller's script checks next
    reply,      \* the table the caller's script returned
    got,        \* what script.Run(...).Result() gave the caller
    ret,        \* what Allow returned
    at,         \* the store's time when the caller's script started
    rnds,       \* the math.random results of the caller's script, per window
    pre,        \* the caller's sorted sets when its script started
    added,      \* the windows the caller's script recorded a marker in
    order       \* callers in the order their scripts ran

vars == << clock, cfgOf, zsets, expire, running, pc, key, now, idx, reply,
           got, ret, at, rnds, pre, added, order >>

NoReturn == [kind |-> "none"]
NilError == [kind |-> "nil"]

\* fmt.Errorf(msg): an error that is not a *RateLimitError
Errorf(msg) == [kind |-> "error", msg |-> msg]

\* a failed type assertion x.(T) without ", ok": the goroutine panics
Panic == [kind |-> "panic"]

\* Go values as the client hands them over: interface{} with its type
GoNil == [t |-> "nil"]
Int64(n) == [t |-> "int64", v |-> n]
String(str) == [t |-> "string", v |-> str]
Slice(elems) == [t |-> "[]interface{}", v |-> elems]

\* nothing received (yet)
NoResult == [err |-> FALSE, val |-> GoNil]

\* The script's table as the client returns it: Lua numbers arrive as
\* int64, Lua strings as string, the table as []interface{}.
ToGo(res) ==
    Slice(<< Int64(res[1]), String(res[2]), Int64(res[3]), Int64(res[4]),
             Int64(res[5]) >>)

\* What goes wrong between the script and Allow: the reply is lost (the
\* connection breaks, or ctx is cancelled or times out, once the store has
\* the command: the store runs the script to its end all the same), or a
\* value of another shape arrives.
Faults == {"lost", "notlist", "short", "badflag", "badfields"}

\* result, err of script.Run(...).Result() when the script returned res
Result(res, fault) ==
    CASE fault = "none"      -> [err |-> FALSE, val |-> ToGo(res)]
      [] fault = "lost"      -> [err |-> TRUE,  val |-> GoNil]
      [] fault = "notlist"   -> [err |-> FALSE, val |-> Int64(1)]
      [] fault = "short"     -> [err |-> FALSE, val |-> Slice(<< Int64(1) >>)]
      [] fault = "badflag"   -> [err |-> FALSE,
                                 val |-> Slice(<< String("1"), String(""), Int64(0),
                                                  Int64(0), Int64(0) >>)]
      [] fault = "badfields" -> [err |-> FALSE,
                                 val |-> Slice(<< Int64(0), Int64(1), String("1"),
                                                  GoNil, GoNil >>)]

\* &RateLimitError{Key, WindowName, WindowSeconds, Current, Limit}
RateLimitError(k, windowName, windowSeconds, current, limit) ==
    [kind |-> "RateLimitError", Key |-> k, WindowName |-> windowName,
     WindowSeconds |-> windowSeconds, Current |-> current, Limit |-> limit]

\* func IsRateLimitError(err error) bool
IsRateLimitError(err) == err.kind = "RateLimitError"

Init ==
    /\ clock = StartTime
    /\ cfgOf \in [Keys -> Configs]
    /\ cfgOf["a:per_second"] \in OtherConfigs
    /\ zsets = [z \in ZsetKeys |-> {}]
    /\ expire = [z \in ZsetKeys |-> NoExpiry]
    /\ running = {}
    /\ pc = [p \in Procs |-> "idle"]
    /\ key = [p \in Procs |-> "a"]
    /\ now = [p \in Procs |-> 0]
    /\ idx = [p \in Procs |-> 1]
    /\ reply = [p \in Procs |-> << >>]
    /\ got = [p \in Procs |-> NoResult]
    /\ ret = [p \in Procs |-> NoReturn]
    /\ at = [p \in Procs |-> 0]
    /\ rnds = [p \in Procs |-> [i \in WIdx |-> 0]]
    /\ pre = [p \in Procs |-> [i \in WIdx |-> {}]]
    /\ added = [p \in Procs |-> {}]
    /\ order = << >>

\* Allow, up to the script call: a nil config returns nil at once, otherwise
\* the clock is read.  Callers are numbered in the order they call.
Allow(p, k) ==
    /\ pc[p] = "idle"
    /\ \A q \in Procs : q < p => pc[q] # "idle"
    /\ key' = [key EXCEPT ![p] = k]
    /\ IF cfgOf[k] = NilConfig
       THEN /\ pc' = [pc EXCEPT ![p] = "done"]
            /\ ret' = [ret EXCEPT ![p] = NilError]
            /\ now' = now
       ELSE /\ pc' = [pc EXCEPT ![p] = "run"]
            /\ now' = [now EXCEPT ![p] = clock]
            /\ ret' = ret
    /\ UNCHANGED << clock, cfgOf, zsets, expire, running, idx, reply, got, at,
                    rnds, pre, added, order >>

CanRunAlways(p) == TRUE

\* The store runs scripts one at a time (EVAL is atomic in Redis).
CanRun(p) == running \subseteq {p}

\* (mutant) a failed check let through
ParseReplyFailOpen(k, res) == NilError

\* (mutant) success, _ := res[0].(int64) with the check of ok left out: a
\* flag of another type reads as one that is not 0
ParseReplyUnchecked(k, res) ==
    IF res.err
    THEN Errorf("rate limit check failed")
    ELSE IF res.val.t # "[]interface{}" \/ Len(res.val.v) < 5
    THEN Errorf("invalid lua script result")
    ELSE IF res.val.v[1].t = "int64" /\ res.val.v[1].v = 0
    THEN IF /\ res.val.v[2].t = "string" /\ res.val.v[3].t = "int64"
            /\ res.val.v[4].t = "int64" /\ res.val.v[5].t = "int64"
         THEN RateLimitError(k, res.val.v[2].v, res.val.v[3].v, res.val.v[4].v,
                             res.val.v[5].v)
         ELSE Panic
    ELSE NilError

\* Allow, after the script call (res: result and err of Result()): an
\* error, a malformed result, a *RateLimitError or nil.  The fields of a
\* failed check are read with unchecked type assertions.
ParseReply(k, res) ==
    IF res.err
    THEN Errorf("rate limit check failed")
    ELSE IF res.val.t # "[]interface{}" \/ Len(res.val.v) < 5
    THEN Errorf("invalid lua script result")
    ELSE IF res.val.v[1].t # "int64"
    THEN Errorf("invalid success flag in lua result")
    ELSE IF res.val.v[1].v = 0
    THEN IF /\ res.val.v[2].t = "string" /\ res.val.v[3].t = "int64"
            /\ res.val.v[4].t = "int64" /\ res.val.v[5].t = "int64"
         THEN RateLimitError(k, res.val.v[2].v, res.val.v[3].v, res.val.v[4].v,
                             res.val.v[5].v)
         ELSE Panic
    ELSE NilError

\* The script, one step per window that touches the store (the windows
\* check_window returns from at once are passed over within the step).  The
\* first step starts the script; a failed check, or no window left, ends it,
\* and Allow returns what it makes of what it receives (the script's table,
\* or with a fault something else).
Script(p, rnd, fault) ==
    /\ pc[p] = "run"
    /\ CanRun(p)
    /\ LET first  == p \notin running
           config == cfgOf[key[p]]
           i      == IF first THEN NextWindow(config, 1) ELSE idx[p]
           t      == IF first THEN clock ELSE at[p]
           w      == windows[i]
           result == check_window(zsets, expire, key[p], w.suffix, config[i],
                                  w.window, now[p], rnd, t)
           \* return {0, suffix, window, result[2], limit}
           failure == <<0, w.suffix, w.window, result.count, config[i]>>
           \* return {1, "", 0, 0, 0}
           success == <<1, "", 0, 0, 0>>
           Return(res) ==
               /\ reply' = [reply EXCEPT ![p] = res]
               /\ got' = [got EXCEPT ![p] = Result(res, fault)]
               /\ ret' = [ret EXCEPT ![p] = ParseReply(key[p], Result(res, fault))]
               /\ pc' = [pc EXCEPT ![p] = "done"]
               /\ running' = running \ {p}
               /\ idx' = idx
       IN  /\ at' = [at EXCEPT ![p] = t]
           /\ pre' = IF first
                     THEN [pre EXCEPT ![p] =
                              [j \in WIdx |-> zsets[zset_key(key[p], windows[j].suffix)]]]
                     ELSE pre
           /\ order' = IF first THEN Append(order, p) ELSE order
           /\ IF i > NumWindows
              THEN /\ Return(success)
                   /\ UNCHANGED << zsets, expire, rnds, added >>
              ELSE /\ zsets' = result.zs
                   /\ expire' = result.ex
                   /\ rnds' = IF result.added THEN [rnds EXCEPT ![p][i] = rnd] ELSE rnds
                   /\ added' = IF result.added THEN [added EXCEPT ![p] = @ \cup {i}]
                                               ELSE added
                   /\ IF ~result.ok
                      THEN Return(failure)
                      ELSE IF NextWindow(config, i + 1) > NumWindows
                      THEN Return(success)
                      ELSE /\ idx' = [idx EXCEPT ![p] = NextWindow(config, i + 1)]
                           /\ running' = running \cup {p}
                           /\ UNCHANGED << reply, got, ret, pc >>
    /\ UNCHANGED << clock, cfgOf, key, now >>

\* a script step, the reply arriving as the script returned it
ScriptStep(p, rnd) == Script(p, rnd, "none")

\* Sorted sets whose expiry has passed at time t are gone.
Expired(zs, ex, t) ==
    [zs |-> [z \in ZsetKeys |-> IF ex[z] # NoExpiry /\ ex[z] <= t THEN {} ELSE zs[z]],
     ex |-> [z \in ZsetKeys |-> IF ex[z] # NoExpiry /\ ex[z] <= t THEN NoExpiry ELSE ex[z]]]

TicksOf(t) == ((t - StartTime) % 60) + ((t - StartTime) \div 60)

\* Time passes (not inside a script: the store's time stands still there).
\* StartTime is the time of the first call.
Tick(d) ==
    /\ running = {}
    /\ \E p \in Procs : pc[p] # "idle"
    /\ TicksOf(clock + d) <= MaxTicks
    /\ clock' = clock + d
    /\ zsets' = Expired(zsets, expire, clock + d).zs
    /\ expire' = Expired(zsets, expire, clock + d).ex
    /\ UNCHANGED << cfgOf, running, pc, key, now, idx, reply, got, ret, at,
                    rnds, pre, added, order >>

Next ==
    \/ \E p \in Procs : \E k \in KeysOf(p) : Allow(p, k)
    \/ \E p \in Procs, rnd \in Randoms : ScriptStep(p, rnd)
    \/ \E d \in Deltas : Tick(d)

Spec == Init /\ [][Next]_vars

\* ------------------------------------------------------------------ faults
\* val has the shape of the table the script returns
IsScriptTable(val) ==
    /\ val.t = "[]interface{}"
    /\ Len(val.v) = 5
    /\ val.v[1].t = "int64" /\ val.v[2].t = "string" /\ val.v[3].t = "int64"
    /\ val.v[4].t = "int64" /\ val.v[5].t = "int64"

\* p's call did not get the table its script returned
Faulty(p) ==
    /\ pc[p] = "done"
    /\ cfgOf[key[p]] # NilConfig
    /\ \/ \A n \in 1..Len(order) : order[n] # p
       \/ got[p].err
       \/ ~IsScriptTable(got[p].val)

\* the faults of a run are few
FaultsLeft == Cardinality({ p \in Procs : Faulty(p) }) < MaxFaults

\* The last step of a script, and the reply does not reach Allow as the
\* script returned it.
FaultyScriptStep(p, rnd, fault) ==
    /\ FaultsLeft
    /\ Script(p, rnd, fault)
    /\ pc'[p] = "done"

\* (mutant) the failed script call is made again
StoreDownRetry(p) ==
    /\ pc[p] = "run"
    /\ p \notin running
    /\ got[p] = NoResult
    /\ got' = [got EXCEPT ![p] = [err |-> TRUE, val |-> GoNil]]
    /\ UNCHANGED << clock, cfgOf, zsets, expire, running, pc, key, now, idx,
                    reply, ret, at, rnds, pre, added, order >>

\* The script call fails before the store has the command (the store is
\* down, or ctx is already cancelled): Result() returns an error and no
\* script runs.
StoreDown(p) ==
    /\ pc[p] = "run"
    /\ p \notin running
    /\ FaultsLeft
    /\ got' = [got EXCEPT ![p] = [err |-> TRUE, val |-> GoNil]]
    /\ ret' = [ret EXCEPT ![p] = ParseReply(key[p], [err |-> TRUE, val |-> GoNil])]
    /\ pc' = [pc EXCEPT ![p] = "done"]
    /\ UNCHANGED << clock, cfgOf, zsets, expire, running, key, now, idx, reply,
                    at, rnds, pre, added, order >>

\* the configs of the runs with faults: none, one window, and two windows
FaultConfigs == { NilConfig, <<1, 0, 0, 0>>, <<2, 0, 0, 1>> }

InitFaults == Init /\ cfgOf["a"] \in FaultConfigs

\* the runs with faults: calls on one key, the clock advancing by seconds
NextFaults ==
    \/ \E p \in Procs : Allow(p, "a")
    \/ \E p \in Procs, rnd \in Randoms : ScriptStep(p, rnd)
    \/ \E p \in Procs, rnd \in Randoms, fault \in Faults :
          FaultyScriptStep(p, rnd, fault)
    \/ \E p \in Procs : StoreDown(p)
    \/ Tick(1)

SpecFaults == InitFaults /\ [][NextFaults]_vars

\* The script as a whole: the loop over windows, ending at the first failed
\* check.  rnd4[i] is what math.random returns in window i's check_window.
RECURSIVE RunFrom(_, _, _, _, _, _, _, _)
RunFrom(zs, ex, KEYS1, config, now_unix, rnd4, t, i) ==
    IF i > NumWindows
    THEN [zs |-> zs, ex |-> ex, reply |-> <<1, "", 0, 0, 0>>]
    ELSE LET w      == windows[i]
             result == check_window(zs, ex, KEYS1, w.suffix, config[i],
                                    w.window, now_unix, rnd4[i], t)
         IN  IF ~result.ok
             THEN [zs |-> result.zs, ex |-> result.ex,
                   reply |-> <<0, w.suffix, w.window, result.count, config[i]>>]
             ELSE RunFrom(result.zs, result.ex, KEYS1, config, now_unix,
                          rnd4, t, i + 1)

luaScript(zs, ex, KEYS1, config, now_unix, rnd4, t) ==
    RunFrom(zs, ex, KEYS1, config, now_unix, rnd4, t, 1)

\* ------------------------------------------------- reading a state's calls
Done(p) == pc[p] = "done"
Accepted(p) == Done(p) /\ ret[p] = NilError
Rejected(p) == Done(p) /\ IsRateLimitError(ret[p])

\* config has limit > 0 for window i and 0 for the others
SingleWindow(config, i) ==
    /\ config # NilConfig
    /\ config[i] > 0
    /\ \A j \in WIdx : j # i => config[j] = 0

\* p's script ran before q's
Before(p, q) ==
    \E m, n \in 1..Len(order) : m < n /\ order[m] = p /\ order[n] = q

\* the callers of key k whose script has run, in that order
KeyOrder(k) == SelectSeq(order, LAMBDA p : key[p] = k)

\* the markers of window i that a script with timestamp t counts, out of
\* the members `members` the sorted set holds when it starts
Counted(members, i, t) ==
    ZREMRANGEBYSCORE(members, tostring(Micros(t - windows[i].window, 0)))

\* the windows whose count has reached the limit when p's script starts
Violated(p) ==
    { i \in WIdx : /\ cfgOf[key[p]][i] > 0
                   /\ Cardinality(Counted(pre[p][i], i, now[p])) >= cfgOf[key[p]][i] }

\* ------------------------------------------------------------------ claims

\* every script on key k so far ran in the second its caller read the clock
Prompt(k) ==
    \A p \in Procs :
        (key[p] = k /\ (p \in running \/ Done(p)) /\ cfgOf[k] # NilConfig)
            => at[p] = now[p]

\* C1 (as claimed): for every key and window with limit L > 0, the calls on
\* the key that returned nil with timestamps in any trailing interval
\* (t - W, t] number at most L.  Stated for the runs in which no call is
\* delayed between reading the clock and its script.
C1_CeilingPerWindow ==
    \A k \in Keys, i \in WIdx :
        (cfgOf[k] # NilConfig /\ cfgOf[k][i] > 0 /\ Prompt(k)) =>
            \A a \in Procs :
                (Accepted(a) /\ key[a] = k) =>
                    Cardinality({ p \in Procs :
                        /\ Accepted(p) /\ key[p] = k
                        /\ now[p] > now[a] - windows[i].window
                        /\ now[p] <= now[a] }) <= cfgOf[k][i]

\* the calls on key k all read the same time, and ran at that time
SameInstant(k) ==
    \A p \in Procs :
        (pc[p] # "idle" /\ key[p] = k) =>
            /\ now[p] = StartTime
            /\ p \in running \/ Done(p) => at[p] = StartTime

\* C2: with a single window of limit 1, of the callers of one fresh key at
\* one instant exactly one gets nil and every other one a rate-limit error.
C2_OneOfManyAccepted ==
    \A k \in Keys, i \in WIdx :
        (SingleWindow(cfgOf[k], i) /\ cfgOf[k][i] = 1 /\ SameInstant(k)) =>
            LET finished == { p \in Procs : Done(p) /\ key[p] = k }
            IN  /\ finished # {} =>
                     Cardinality({ p \in finished : Accepted(p) }) = 1
                /\ \A p \in finished : Accepted(p) \/ Rejected(p)

C2_Witness ==
    \E k \in Keys, i \in WIdx :
        /\ SingleWindow(cfgOf[k], i) /\ cfgOf[k][i] = 1 /\ SameInstant(k)
        /\ \A p \in Procs : Done(p) /\ key[p] = k
        /\ Cardinality({ p \in Procs : Rejected(p) }) = NumProcs - 1

\* The calls of seq run one at a time, each as a whole, on an empty store:
\* the store afterwards and the replies, in that order.
RECURSIVE Replay(_)
Replay(seq) ==
    IF seq = << >>
    THEN [zs |-> [z \in ZsetKeys |-> {}], ex |-> [z \in ZsetKeys |-> NoExpiry],
          replies |-> << >>]
    ELSE LET p    == seq[Len(seq)]
             prev == Replay(SubSeq(seq, 1, Len(seq) - 1))
             st   == Expired(prev.zs, prev.ex, at[p])
             r    == luaScript(st.zs, st.ex, key[p], cfgOf[key[p]], now[p],
                               rnds[p], at[p])
         IN  [zs |-> r.zs, ex |-> r.ex, replies |-> Append(prev.replies, r.reply)]

\* p's script has started and not ended
InScript(p) == pc[p] = "run" /\ \E n \in 1..Len(order) : order[n] = p

\* C3: the scripts on the store run one at a time, each as a whole: no
\* script takes a step while another one is part-way through its windows,
\* and whenever no script is running the store and every reply are those of
\* running the calls one after the other, in the order their scripts ran.
C3_Serializable ==
    /\ [](running = {} =>
            LET r  == Replay(order)
                st == Expired(r.zs, r.ex, clock)
            IN  /\ zsets = st.zs
                /\ expire = st.ex
                /\ \A n \in 1..Len(order) : reply[order[n]] = r.replies[n])
    /\ [][\A p \in Procs :
            (pc[p] = "run" /\ (\/ idx'[p] # idx[p]
                               \/ pc'[p] = "done"
                               \/ ~InScript(p) /\ InScript(p)'))
                => \A q \in Procs \ {p} : ~InScript(q)]_vars

\* two callers of a key with two windows overlapped (the later caller's
\* script ran first) and both have returned
C3_Witness ==
    \E p, q \in Procs :
        /\ p < q /\ key[p] = key[q] /\ Before(q, p)
        /\ Done(p) /\ Done(q)
        /\ cfgOf[key[p]] # NilConfig
        /\ Cardinality({ i \in WIdx : cfgOf[key[p]][i] > 0 }) >= 2

\* C4: with a single window of limit L, the first L calls on a fresh key
\* return nil.
C4_FirstLAccepted ==
    \A k \in Keys, i \in WIdx :
        SingleWindow(cfgOf[k], i) =>
            \A n \in 1..Len(KeyOrder(k)) :
                (n <= cfgOf[k][i] /\ Done(KeyOrder(k)[n])) =>
                    ret[KeyOrder(k)[n]] = NilError

C4_Witness ==
    \E k \in Keys, i \in WIdx :
        /\ SingleWindow(cfgOf[k], i) /\ cfgOf[k][i] = 2
        /\ Len(KeyOrder(k)) >= 2
        /\ Accepted(KeyOrder(k)[1]) /\ Accepted(KeyOrder(k)[2])
        \* one call at a time: the second call began after the first returned
        /\ KeyOrder(k)[1] < KeyOrder(k)[2]

\* C5 (as claimed): with a single window of limit L, a call made after L
\* calls were accepted within the window's duration before it is rejected,
\* and the rejection names that window.  Stated for the runs in which no
\* call is delayed between reading the clock and its script.
C5_NextRejected ==
    \A k \in Keys, i \in WIdx :
        (SingleWindow(cfgOf[k], i) /\ Prompt(k)) =>
            \A p \in Procs :
                ( /\ Done(p) /\ key[p] = k
                  /\ Cardinality({ q \in Procs :
                        /\ Accepted(q) /\ key[q] = k /\ Before(q, p)
                        /\ now[q] > now[p] - windows[i].window
                        /\ now[q] <= now[p] }) >= cfgOf[k][i] )
                => ( Rejected(p) /\ ret[p].WindowName = windows[i].suffix )

\* C6: a call with a config returns nil exactly when every window with
\* limit > 0 counts fewer markers than its limit after its purge; it is
\* rejected when one of them has reached its limit.
C6_NilIffAllBelow ==
    \A p \in Procs :
        (Done(p) /\ cfgOf[key[p]] # NilConfig) =>
            /\ Accepted(p) <=> Violated(p) = {}
            /\ Rejected(p) <=> Violated(p) # {}

\* a call rejected by a later window although an earlier one had room, and
\* a call accepted by two windows
C6_Witness ==
    /\ \E p \in Procs :
          /\ Rejected(p)
          /\ cfgOf[key[p]][1] > 0 /\ 1 \notin Violated(p) /\ 4 \in Violated(p)
    /\ \E p \in Procs :
          Accepted(p) /\ cfgOf[key[p]] # NilConfig /\ cfgOf[key[p]][1] > 0
                      /\ cfgOf[key[p]][4] > 0

\* C7 (as claimed): a call that returns a rate-limit error has recorded no
\* marker in any window.
C7_RejectedRecordsNothing ==
    \A p \in Procs : Rejected(p) => added[p] = {}

\* C8 (as claimed): with a single window of duration W, a call is accepted
\* when every earlier call on its key has a timestamp at least W seconds
\* before its own (markers recorded at T do not count at T + W).
C8_RecoveryAtW ==
    \A k \in Keys, i \in WIdx :
        SingleWindow(cfgOf[k], i) =>
            \A p \in Procs :
                ( /\ Done(p) /\ key[p] = k
                  /\ \A q \in Procs :
                        (key[q] = k /\ Before(q, p))
                            => now[q] + windows[i].window <= now[p] )
                => Accepted(p)

\* C8 (amended): with a single window of duration W, a call is accepted
\* when every earlier call on its key has a timestamp at least W + 1
\* seconds before its own (markers recorded at T do not count at T + W + 1).
C8_RecoveryAfterW ==
    \A k \in Keys, i \in WIdx :
        SingleWindow(cfgOf[k], i) =>
            \A p \in Procs :
                ( /\ Done(p) /\ key[p] = k
                  /\ \A q \in Procs :
                        (key[q] = k /\ Before(q, p))
                            => now[q] + windows[i].window + 1 <= now[p] )
                => Accepted(p)

\* a call accepted at T, a call rejected at T, and with no call in between
\* a call accepted at T + W + 1
C8_Witness ==
    \E k \in Keys, i \in WIdx :
        /\ SingleWindow(cfgOf[k], i)
        /\ Len(KeyOrder(k)) = 3
        /\ LET a == KeyOrder(k)[1]
               b == KeyOrder(k)[2]
               c == KeyOrder(k)[3]
           IN  /\ Accepted(a) /\ Rejected(b) /\ Accepted(c)
               /\ now[b] = now[a]
               /\ now[c] = now[a] + windows[i].window + 1

\* C9: the calls on one key change nothing of another key: whenever no
\* script is running, the sorted sets of every key and the replies of the
\* calls on it are those of running the calls on that key alone.
C9_KeyIndependence ==
    running = {} =>
        \A k \in Keys :
            LET r  == Replay(KeyOrder(k))
                st == Expired(r.zs, r.ex, clock)
            IN  /\ \A i \in WIdx :
                      /\ zsets[zset_key(k, windows[i].suffix)]
                            = st.zs[zset_key(k, windows[i].suffix)]
                      /\ expire[zset_key(k, windows[i].suffix)]
                            = st.ex[zset_key(k, windows[i].suffix)]
                /\ \A n \in 1..Len(KeyOrder(k)) :
                      reply[KeyOrder(k)[n]] = r.replies[n]

\* the limit of one key is used up (a call on it was rejected) and a call
\* on the other key, made and run after that, is accepted
C9_Witness ==
    \E p, q \in Procs :
        /\ key[p] # key[q]
        /\ Rejected(p) /\ Accepted(q) /\ Before(p, q)
        /\ cfgOf[key[q]] # NilConfig

\* the place of a window name in the order per_second, per_minute,
\* per_hour, per_day
Rank(name) ==
    CASE name = "per_second" -> 1
      [] name = "per_minute" -> 2
      [] name = "per_hour"   -> 3
      [] name = "per_day"    -> 4

\* C10: a rejection names the first, in the order per_second, per_minute,
\* per_hour, per_day, of the windows whose count has reached the limit.
C10_FirstViolatedNamed ==
    \A p \in Procs :
        Rejected(p) =>
            /\ \E i \in Violated(p) : ret[p].WindowName = windows[i].suffix
            /\ \A i \in Violated(p) :
                  Rank(ret[p].WindowName) <= Rank(windows[i].suffix)

\* a call over the limit of per_second and of per_day, reported as per_second
C10_Witness ==
    \E p \in Procs :
        /\ Rejected(p)
        /\ {1, 4} \subseteq Violated(p)
        /\ ret[p].WindowName = "per_second"

\* the marker p's script recorded in window i (ZADD zset_key member member)
MarkerOf(p, i) == tostring(Micros(now[p], rnds[p][i]))

\* C11 (as claimed): every marker a call records is a new member of its
\* sorted set, also among the calls of one second: the set the call counted
\* after its purge does not hold it yet, so that the set grows by one.
C11_OneNewMarker ==
    \A p \in Procs :
        \A i \in added[p] :
            MarkerOf(p, i) \notin Counted(pre[p][i], i, now[p])

\* what the rate-limit errors returned carry: the key of the call, the name
\* and the duration of one of the four windows, the limit configured for
\* that window and the count of the window after its purge
PayloadOfRejections ==
    \A p \in Procs :
        Rejected(p) =>
            /\ ret[p].Key = key[p]
            /\ \E i \in WIdx :
                  /\ ret[p].WindowName = windows[i].suffix
                  /\ ret[p].WindowSeconds = windows[i].window
                  /\ ret[p].Limit = cfgOf[key[p]][i]
                  /\ ret[p].Current = Cardinality(Counted(pre[p][i], i, now[p]))
            /\ ret[p].Current >= ret[p].Limit
            /\ ret[p].Limit > 0

\* C12 (as claimed): a rate-limit error carries the key of the call, the
\* name and the duration of one of the four windows, the limit configured
\* for that window and the count of the window after its purge, with
\* Current >= Limit > 0; and on a fresh key with per_second = L alone, the
\* call after L calls of the same instant fails with per_second, Limit L
\* and Current L.
C12_RejectionPayload ==
    /\ PayloadOfRejections
    /\ \A k \in Keys :
          (SingleWindow(cfgOf[k], 1) /\ SameInstant(k)) =>
              \A n \in 1..Len(KeyOrder(k)) :
                  (n = cfgOf[k][1] + 1 /\ Done(KeyOrder(k)[n])) =>
                      /\ Rejected(KeyOrder(k)[n])
                      /\ ret[KeyOrder(k)[n]].WindowName = "per_second"
                      /\ ret[KeyOrder(k)[n]].Limit = cfgOf[k][1]
                      /\ ret[KeyOrder(k)[n]].Current = cfgOf[k][1]

\* config is nil or has limit 0 for every window
NoLimits(config) == config = NilConfig \/ \A i \in WIdx : config[i] = 0

\* C13: with a nil config, or a config whose four limits are 0, every call
\* returns nil and records nothing, the sorted sets of the key are never
\* created, and with a nil config the store is not called at all.
C13_NoLimitsNoState ==
    \A k \in Keys :
        NoLimits(cfgOf[k]) =>
            /\ \A p \in Procs :
                  (key[p] = k /\ pc[p] # "idle") =>
                      /\ Done(p) => ret[p] = NilError
                      /\ added[p] = {}
                      /\ cfgOf[k] = NilConfig =>
                            (Done(p) /\ \A n \in 1..Len(order) : order[n] # p)
            /\ \A i \in WIdx :
                  /\ zsets[zset_key(k, windows[i].suffix)] = {}
                  /\ expire[zset_key(k, windows[i].suffix)] = NoExpiry

\* calls with the all-zero config have run their scripts and returned, and
\* time has passed since
C13_Witness ==
    \E k \in Keys :
        /\ cfgOf[k] # NilConfig /\ NoLimits(cfgOf[k])
        /\ Len(KeyOrder(k)) >= 2
        /\ \A n \in 1..Len(KeyOrder(k)) : Accepted(KeyOrder(k)[n])
        /\ clock > StartTime

\* C14: with per_second = N alone, a call whose timestamp is at least two
\* seconds after that of every earlier call on the key counts no marker
\* and is accepted, and so are the calls after it at the same timestamp, up
\* to N calls in all (the whole quota is back two seconds after the calls
\* that used it up).
C14_PerSecondRecovery ==
    \A k \in Keys :
        SingleWindow(cfgOf[k], 1) =>
            \A m \in 1..Len(KeyOrder(k)) :
                LET p == KeyOrder(k)[m]
                IN  (\A j \in 1..(m - 1) : now[KeyOrder(k)[j]] + 2 <= now[p]) =>
                        /\ Counted(pre[p][1], 1, now[p]) = {}
                        /\ \A n \in m..Len(KeyOrder(k)) :
                              ( /\ n - m < cfgOf[k][1]
                                /\ Done(KeyOrder(k)[n])
                                /\ \A j \in m..n : now[KeyOrder(k)[j]] = now[p] )
                              => Accepted(KeyOrder(k)[n])

\* per_second = 1: a call accepted at T, a call rejected at T, and a call
\* accepted at T + 2 that counted no marker
C14_Witness ==
    \E k \in Keys :
        /\ SingleWindow(cfgOf[k], 1) /\ cfgOf[k][1] = 1
        /\ Len(KeyOrder(k)) = 3
        /\ LET a == KeyOrder(k)[1]
               b == KeyOrder(k)[2]
               c == KeyOrder(k)[3]
           IN  /\ Accepted(a) /\ Rejected(b) /\ Accepted(c)
               /\ now[b] = now[a]
               /\ now[c] = now[a] + 2
               /\ at[b] = now[a]
               /\ Counted(pre[c][1], 1, now[c]) = {}

\* p's script purged and counted window i
Evaluated(p, i) ==
    \/ i \in added[p]
    \/ Rejected(p) /\ ret[p].WindowName = windows[i].suffix

\* C17 (as claimed): when a script counts a window, after its purge, the
\* sorted set holds one marker for each call on the key that was accepted
\* with a timestamp in the W seconds up to the script's, and nothing else
\* (no older marker, no marker of a rejected call).  Stated for the calls
\* of one instant, where no marker is old.
C17_WindowState ==
    \A p \in Procs :
        (Done(p) /\ cfgOf[key[p]] # NilConfig /\ SameInstant(key[p])) =>
            \A i \in WIdx :
                Evaluated(p, i) =>
                    LET counted == Counted(pre[p][i], i, now[p])
                        recent  == { q \in Procs :
                                       /\ key[q] = key[p] /\ Before(q, p)
                                       /\ Accepted(q)
                                       /\ now[q] > now[p] - windows[i].window
                                       /\ now[q] <= now[p] }
                    IN  /\ counted = { MarkerOf(q, i) : q \in recent }
                        /\ Cardinality(counted) = Cardinality(recent)

\* The calls of seq run one at a time on an empty store whose own clock
\* stands still at StartTime, so that no sorted set ever expires: the
\* replies, in that order.
RECURSIVE ReplayStill(_)
ReplayStill(seq) ==
    IF seq = << >>
    THEN [zs |-> [z \in ZsetKeys |-> {}], ex |-> [z \in ZsetKeys |-> NoExpiry],
          replies |-> << >>]
    ELSE LET p    == seq[Len(seq)]
             prev == ReplayStill(SubSeq(seq, 1, Len(seq) - 1))
             r    == luaScript(prev.zs, prev.ex, key[p], cfgOf[key[p]], now[p],
                               rnds[p], StartTime)
         IN  [zs |-> r.zs, ex |-> r.ex, replies |-> Append(prev.replies, r.reply)]

\* C18 (as claimed): the result of a call depends on the timestamps and
\* limits of the calls so far only, not on the store's clock: every reply
\* is the one the same calls, with the same timestamps, get from a store
\* whose clock stands still (where no sorted set expires).
C18_StoreClockIrrelevant ==
    running = {} =>
        \A n \in 1..Len(order) :
            reply[order[n]] = ReplayStill(order).replies[n]

\* the callers whose script recorded a marker in window i of key k
Writers(k, i) == { p \in Procs : pc[p] # "idle" /\ key[p] = k /\ i \in added[p] }

\* C20: when W + 1 seconds have passed since the last marker was recorded
\* in the sorted set of a key and window, the sorted set is gone.
C20_IdleStorageRemoved ==
    \A k \in Keys, i \in WIdx :
        ( /\ Writers(k, i) # {}
          /\ \A p \in Writers(k, i) : clock >= at[p] + windows[i].window + 1 )
        => /\ zsets[zset_key(k, windows[i].suffix)] = {}
           /\ expire[zset_key(k, windows[i].suffix)] = NoExpiry

\* a per_minute marker was recorded, no call came after it, and 61 seconds
\* have passed; one second earlier the sorted set was still there
C20_Witness ==
    \E k \in Keys :
        /\ Writers(k, 2) # {}
        /\ \A p \in Writers(k, 2) : clock = at[p] + 61
        /\ \A p \in Procs : (pc[p] # "idle" /\ key[p] = k) => p \in Writers(k, 2)
        /\ zsets[zset_key(k, "per_minute")] = {}

\* p's script ran (or is running)
Ran(p) == \E n \in 1..Len(order) : order[n] = p

\* a result of the wrong shape, of fewer than 5 fields, or whose success
\* flag is not an integer
Malformed(val) ==
    \/ val.t # "[]interface{}"
    \/ Len(val.v) < 5
    \/ val.v[1].t # "int64"

\* C15: Allow returns a rate-limit error only when the script of the call
\* ran and reported a failed window, and the reply arrived; when the script
\* call returns an error, or a result that is malformed, Allow returns an
\* error that is not nil and not a rate-limit error.
C15_ErrorTaxonomy ==
    \A p \in Procs :
        (Done(p) /\ cfgOf[key[p]] # NilConfig) =>
            /\ IsRateLimitError(ret[p]) =>
                  (Ran(p) /\ reply[p][1] = 0 /\ ~got[p].err)
            /\ (got[p].err \/ Malformed(got[p].val)) =>
                  (ret[p].kind = "error" /\ ~IsRateLimitError(ret[p])
                                         /\ ret[p] # NilError)

\* a call whose reply arrived with a success flag that is no integer got an
\* error, and a call after it was rejected by the script
C15_Witness ==
    \E p, q \in Procs :
        /\ Done(p) /\ Ran(p)
        /\ ~got[p].err /\ got[p].val.t = "[]interface{}"
        /\ Len(got[p].val.v) = 5 /\ got[p].val.v[1].t = "string"
        /\ ret[p] = Errorf("invalid success flag in lua result")
        /\ Rejected(q) /\ Before(p, q)

\* C16 (as claimed): Allow never panics: whatever arrives as the result of
\* the script call, Allow returns nil, a rate-limit error or another error.
C16_NeverPanics ==
    \A p \in Procs : ret[p].kind \in {"none", "nil", "RateLimitError", "error"}

\* the script call of p returned an error (the store down, the reply lost,
\* ctx cancelled or timed out)
Cancelled(p) == Done(p) /\ got[p].err

\* C19: when the script call of a call returns an error, the store holds
\* all of what the call's script does or nothing of it: whenever no script
\* is running, the store is the one left by the scripts that ran, each as a
\* whole, and a call whose script did not run has recorded nothing.
C19_AllOrNothing ==
    (running = {} /\ \E p \in Procs : Cancelled(p)) =>
        LET r  == Replay(order)
            st == Expired(r.zs, r.ex, clock)
        IN  /\ zsets = st.zs
            /\ expire = st.ex
            /\ \A p \in Procs : (Cancelled(p) /\ ~Ran(p)) => added[p] = {}

\* with two windows: a call whose reply was lost has recorded in both
\* windows, and a call after it was rejected by the second window
C19_Witness ==
    \E p, q \in Procs :
        /\ Cancelled(p) /\ Ran(p) /\ added[p] = {1, 4}
        /\ Rejected(q) /\ Before(p, q) /\ ret[q].WindowName = "per_day"
        /\ running = {}

\* how many times p's script call reached the store and ran the script
Runs(p) == Cardinality({ n \in 1..Len(order) : order[n] = p })

\* C21: a call with a config makes one script call: its script runs at
\* most once, a call that has returned either had its script run once or
\* got the error of a script call that did not reach the store, and once
\* the result of the script call is in the call is over, whatever the
\* result (no second script call).  A call with a nil config makes none.
C21_OneRoundTrip ==
    \A p \in Procs :
        /\ Runs(p) <= 1
        /\ (pc[p] # "idle" /\ cfgOf[key[p]] = NilConfig) =>
              (Runs(p) = 0 /\ got[p] = NoResult /\ Done(p))
        /\ (Done(p) /\ cfgOf[key[p]] # NilConfig) =>
              (Runs(p) = 1 \/ (Runs(p) = 0 /\ got[p].err))
        /\ got[p] # NoResult => (Done(p) /\ p \notin running)

\* three calls with a config have returned: one accepted, one rejected and
\* one with the error of a script call that failed
C21_Witness ==
    \E p, q, r \in Procs :
        /\ Accepted(p) /\ Runs(p) = 1
        /\ Rejected(q) /\ Runs(q) = 1
        /\ Done(r) /\ got[r].err /\ Runs(r) = 0
        /\ ret[r] = Errorf("rate limit check failed")

\* the latest of the times in the non-empty set S
Latest(S) == CHOOSE t \in S : \A u \in S : u <= t

\* C22: a sorted set that holds markers expires W + 1 seconds after the
\* last marker was recorded in it: each recording sets its time to live to
\* window_seconds + 1.
C22_ExpiryRefreshed ==
    \A k \in Keys, i \in WIdx :
        LET z == zset_key(k, windows[i].suffix)
        IN  zsets[z] # {} =>
                /\ Writers(k, i) # {}
                /\ expire[z] = Latest({ at[p] : p \in Writers(k, i) })
                                  + windows[i].window + 1

\* two markers recorded in a per_second set a second apart: the set, which
\* would have expired a second from now, has two seconds to live
C22_Witness ==
    \E k \in Keys, p, q \in Procs :
        /\ {p, q} \subseteq Writers(k, 1)
        /\ at[q] = at[p] + 1
        /\ clock = at[q]
        /\ Cardinality(zsets[zset_key(k, "per_second")]) = 2
        /\ expire[zset_key(k, "per_second")] = clock + 2

\* the window the next step of p's script checks
StepWindow(p) == IF Ran(p) THEN idx[p] ELSE NextWindow(cfgOf[key[p]], 1)

\* this step is a step of p's script
IsStepOf(p) ==
    /\ pc[p] = "run"
    /\ Ran(p)'
    /\ ~Ran(p) \/ idx'[p] # idx[p] \/ pc'[p] = "done"

\* C23: the script stops at the first window whose check fails.  Each of
\* its steps leaves the sorted sets of the windows after the one it checks
\* as they are (members and expiry), it goes through the windows in their
\* order, and the step whose check fails adds no marker and ends the
\* script: the windows after that one are as they were when the script
\* started.
C23_StopsAtFirstViolated ==
    [][\A p \in Procs :
          IsStepOf(p) =>
              /\ \A j \in WIdx :
                    j > StepWindow(p) =>
                        /\ zsets'[zset_key(key[p], windows[j].suffix)]
                              = zsets[zset_key(key[p], windows[j].suffix)]
                        /\ expire'[zset_key(key[p], windows[j].suffix)]
                              = expire[zset_key(key[p], windows[j].suffix)]
              /\ pc'[p] # "done" => idx'[p] > StepWindow(p)
              /\ IsRateLimitError(ret'[p]) =>
                    /\ ret'[p].WindowName = windows[StepWindow(p)].suffix
                    /\ zsets'[zset_key(key[p], ret'[p].WindowName)]
                          \subseteq zsets[zset_key(key[p], ret'[p].WindowName)]
                    /\ \A j \in WIdx : j >= StepWindow(p) => j \notin added'[p]
                    /\ \A j \in WIdx :
                          j > StepWindow(p) =>
                              zsets'[zset_key(key[p], windows[j].suffix)] = pre'[p][j]
    ]_vars

\* a call rejected for per_second, with a per_day limit set and a per_day
\* marker in the store: the per_day set is as it was
C23_Witness ==
    \E p \in Procs :
        /\ Rejected(p) /\ ret[p].WindowName = "per_second"
        /\ cfgOf[key[p]][4] > 0
        /\ pre[p][4] # {}
        /\ added[p] = {}
        /\ zsets[zset_key(key[p], "per_day")] = pre[p][4]

\* C24: in a config with limits above 0 and limits of 0, a window whose
\* limit is 0 is never the one a call is rejected for, no call records a
\* marker in it, and its sorted set never exists.
C24_ZeroIsUnlimited ==
    \A k \in Keys, i \in WIdx :
        ( /\ cfgOf[k] # NilConfig
          /\ cfgOf[k][i] = 0
          /\ \E j \in WIdx : cfgOf[k][j] > 0 )
        => /\ zsets[zset_key(k, windows[i].suffix)] = {}
           /\ expire[zset_key(k, windows[i].suffix)] = NoExpiry
           /\ \A p \in Procs :
                 (pc[p] # "idle" /\ key[p] = k) =>
                     /\ i \notin added[p]
                     /\ Rejected(p) => ret[p].WindowName # windows[i].suffix

\* per_second = 2 and the other limits 0: two calls accepted and one
\* rejected, for per_second
C24_Witness ==
    \E k \in Keys :
        /\ cfgOf[k] = <<2, 0, 0, 0>>
        /\ Cardinality({ p \in Procs : Accepted(p) /\ key[p] = k }) = 2
        /\ \E p \in Procs : Rejected(p) /\ key[p] = k
                            /\ ret[p].WindowName = "per_second"

\* C25: the sorted set of a key and window whose limit is L > 0 never holds
\* more than L markers, whatever the order of the scripts and their
\* timestamps (the config of a key is the same in all its calls).
C25_StoredCountBound ==
    \A k \in Keys, i \in WIdx :
        (cfgOf[k] # NilConfig /\ cfgOf[k][i] > 0) =>
            Cardinality(zsets[zset_key(k, windows[i].suffix)]) <= cfgOf[k][i]

\* a per_second set of limit 2 holds 2 markers, one of them recorded by a
\* script whose timestamp was behind the store's time, and a call was
\* rejected for it
C25_Witness ==
    \E k \in Keys :
        /\ cfgOf[k] # NilConfig /\ cfgOf[k][1] = 2
        /\ Cardinality(zsets[zset_key(k, "per_second")]) = 2
        /\ \E p \in Writers(k, 1) : now[p] < at[p]
        /\ \E p \in Procs : Rejected(p) /\ key[p] = k
                            /\ ret[p].WindowName = "per_second"

\* C26 (as claimed): a call is rejected for window w only when at least
\* limit_w earlier calls on the key returned nil with timestamps in
\* [now - W, now]; rejected calls do not count.  Stated for the runs in
\* which no call is delayed between reading the clock and its script.
C26_RejectionsReflectAccepted ==
    \A p \in Procs :
        (Rejected(p) /\ Prompt(key[p])) =>
            \A i \in WIdx :
                ret[p].WindowName = windows[i].suffix =>
                    Cardinality({ q \in Procs :
                        /\ Accepted(q) /\ key[q] = key[p] /\ Before(q, p)
                        /\ now[q] >= now[p] - windows[i].window
                        /\ now[q] <= now[p] }) >= cfgOf[key[p]][i]

\* no two calls on key k recorded the same marker in a window
NoCollision(k) ==
    \A p, q \in Procs :
        (p # q /\ key[p] = k /\ key[q] = k) =>
            \A i \in added[p] \cap added[q] : MarkerOf(p, i) # MarkerOf(q, i)

\* C27 (as claimed): also when the timestamps of the calls on a key are
\* not in the order their scripts run, the calls on the key that returned
\* nil with timestamps in an interval (t - W, t] number at most L, for
\* every window with limit L > 0.  Stated for the runs without two equal
\* markers.
C27_CeilingSkewedClocks ==
    \A k \in Keys, i \in WIdx :
        (cfgOf[k] # NilConfig /\ cfgOf[k][i] > 0 /\ NoCollision(k)) =>
            \A a \in Procs :
                (Accepted(a) /\ key[a] = k) =>
                    Cardinality({ p \in Procs :
                        /\ Accepted(p) /\ key[p] = k
                        /\ now[p] > now[a] - windows[i].window
                        /\ now[p] <= now[a] }) <= cfgOf[k][i]

\* C28 (as claimed): when Allow returns an error that is not a rate-limit
\* error, no sorted set holds a marker recorded by the call's script.
C28_FailureLeavesNoMarker ==
    \A p \in Procs :
        (Done(p) /\ ret[p].kind = "error") =>
            \A i \in added[p] :
                MarkerOf(p, i) \notin zsets[zset_key(key[p], windows[i].suffix)]

\* C29: when the scripts run at the time their callers read (the store's
\* clock and the timestamps advance together), a sorted set holds, at the
\* time it expires, only markers that the purge of a call made at that time
\* removes: expiry takes away no marker such a call would have counted.
C29_ExpiryAgreesWithPurge ==
    \A k \in Keys :
        Prompt(k) =>
            \A i \in WIdx :
                LET z == zset_key(k, windows[i].suffix)
                IN  zsets[z] # {} =>
                        /\ expire[z] # NoExpiry
                        /\ Counted(zsets[z], i, expire[z]) = {}

\* a per_second marker with microseconds above 0 was recorded, no call
\* came after it, and the set has expired two seconds later; at the time
\* of the marker plus one second the purge would still have counted it
C29_Witness ==
    \E k \in Keys, p \in Procs :
        /\ Prompt(k)
        /\ p \in Writers(k, 1) /\ rnds[p][1] = 100
        /\ clock = at[p] + 2
        /\ \A q \in Procs : (pc[q] # "idle" /\ key[q] = k) => q = p
        /\ zsets[zset_key(k, "per_second")] = {}
        /\ Counted({MarkerOf(p, 1)}, 1, now[p] + 1) # {}

\* config with its negative limits replaced by 0
Zeroed(config) == [i \in WIdx |-> IF config[i] < 0 THEN 0 ELSE config[i]]

\* the store with the sorted sets of p's key as they were when p's script
\* started, and no others
StoreBefore(p) ==
    [z \in ZsetKeys |->
        IF \E i \in WIdx : z = zset_key(key[p], windows[i].suffix)
        THEN pre[p][CHOOSE i \in WIdx : z = zset_key(key[p], windows[i].suffix)]
        ELSE {}]

\* C30: a window whose limit is negative is treated as one whose limit is
\* 0: no call is rejected for it, no call records a marker in it, its
\* sorted set never exists, and the script of every call replies and
\* leaves the store as it does with 0 in the place of the negative limit.
C30_NegativeIsUnlimited ==
    \A k \in Keys, i \in WIdx :
        (cfgOf[k] # NilConfig /\ cfgOf[k][i] < 0) =>
            /\ zsets[zset_key(k, windows[i].suffix)] = {}
            /\ expire[zset_key(k, windows[i].suffix)] = NoExpiry
            /\ \A p \in Procs :
                  (pc[p] # "idle" /\ key[p] = k) =>
                      /\ i \notin added[p]
                      /\ Rejected(p) => ret[p].WindowName # windows[i].suffix
                      /\ (Done(p) /\ Ran(p)) =>
                            LET zs0 == StoreBefore(p)
                                ex0 == [z \in ZsetKeys |-> NoExpiry]
                                r   == luaScript(zs0, ex0, k, cfgOf[k], now[p],
                                                 rnds[p], at[p])
                                r0  == luaScript(zs0, ex0, k, Zeroed(cfgOf[k]),
                                                 now[p], rnds[p], at[p])
                            IN  r = r0 /\ r.reply = reply[p]

\* per_second = -1 and per_day = 1: a call accepted and a call rejected,
\* for per_day
C30_Witness ==
    \E k \in Keys, p, q \in Procs :
        /\ cfgOf[k] # NilConfig /\ cfgOf[k][1] < 0 /\ cfgOf[k][4] = 1
        /\ key[p] = k /\ key[q] = k
        /\ Accepted(p) /\ added[p] = {4}
        /\ Rejected(q) /\ ret[q].WindowName = "per_day"

====
